---- MODULE Spec2Model ----
(***************************************************************************)
(* A model of sound_processing_lab.py: the interactive pipeline            *)
(*   main -> get_file_name -> get_integer -> sound_processing ->           *)
(*   chorus | delay | distortion -> write_new_sound_file                   *)
(* and of the three sample loops, one action per loop iteration.           *)
(*                                                                         *)
(* Numbers.  A numpy float64 is modelled as an exact rational or one of    *)
(* NaN, +Inf, -Inf; rounding is not modelled and -0.0 is identified with   *)
(* 0.0 (they compare equal in numpy).  The raw buffer read from the WAV    *)
(* file is modelled with dtype int16 (16 bit PCM), so np.abs wraps on      *)
(* -32768 as numpy does.                                                   *)
(*                                                                         *)
(* Arrays.  A numpy array is a record [dtype, ndim, ch, rows]; rows is the *)
(* sequence of its first-axis items (TLA+ index i+1 for numpy index i),    *)
(* each item a sequence of ch elements: one element for a 1-D array, one   *)
(* per channel for a 2-D array.                                            *)
(*                                                                         *)
(* Exceptions.  An exception nothing catches ends the program: pc becomes  *)
(* "crashed" and exc names it.                                             *)
(***************************************************************************)
EXTENDS Integers, Sequences, FiniteSets, TLC

VARIABLES
    pc,          \* the statement the program is at
    ret,         \* where sound_processing returns to
    message,     \* the prompt the current input loop will show next
    file_name,   \* main's file_name
    sound_obj,   \* main's sound_obj (a Sound_file) or None
    int_choice,  \* main's int_choice / sound_processing's parameter
    filt_obj,    \* the filtered Sound_file, or None
    D,           \* chorus/delay local D
    D2,          \* delay local D2
    X_norm,      \* the running filter's X_norm
    Y,           \* the running filter's output array Y
    n,           \* the running filter's loop index
    out_file,    \* what wavfile.write has written, or None
    exc,         \* the exception that ended the program, or None
    calls,       \* history: the calls made, in order
    writes,      \* history: the numpy indices of Y assigned, in order
    reads        \* history: the cells the sample loop has read

vars == <<pc, ret, message, file_name, sound_obj, int_choice, filt_obj, D, D2,
          X_norm, Y, n, out_file, exc, calls, writes, reads>>

\* Python's None: as the value of a string-valued name, of a file name (a name
\* wavfile.read accepts is never empty) and of an object-valued name
None == "None"
NoName == <<>>
NoObject == [none |-> TRUE]

-----------------------------------------------------------------------------
(* Bounds of the model. *)

\* the largest number of frames of an input buffer
MaxLen == 3
\* the largest number of channels of an input buffer
MaxChannels == 2
\* the largest number of samples (frames * channels) of an input buffer
MaxSize == 4
\* the longest line the user types at the effect prompt
MaxInput == 2

\* the sample values input buffers are built from (int16)
Samples == {-32768, -1, 0, 1, 5}
\* the sample rates wavfile.read reports
SampleRates == {2, 3, 20, 40}
\* the selections sound_processing is called with when called directly
Selections == 0 .. 4
\* the characters the user types at the effect prompt
Chars == {"1", "2", "3", "4", "-", " ", "x"}
\* the file names the user enters
FileNames == { <<"a", ".", "w", "a", "v">>, <<"b", "c", "d">> }

-----------------------------------------------------------------------------
(* float64 arithmetic on exact rationals with NaN and the infinities. *)

RECURSIVE GCD(_, _)
GCD(a, b) == IF b = 0 THEN a ELSE GCD(b, a % b)

AbsInt(x) == IF x < 0 THEN -x ELSE x

SignOf(x) == IF x < 0 THEN -1 ELSE IF x > 0 THEN 1 ELSE 0

\* the rational num/den (den # 0) in lowest terms with a positive denominator
Fin(num, den) ==
    LET g == GCD(AbsInt(num), AbsInt(den))
        s == IF den < 0 THEN -1 ELSE 1
    IN  [k |-> "fin", n |-> s * (num \div g), d |-> s * (den \div g)]

NaN == [k |-> "nan", n |-> 0, d |-> 1]
PInf == [k |-> "inf", n |-> 1, d |-> 1]
NInf == [k |-> "inf", n |-> -1, d |-> 1]
Inf(sign) == IF sign < 0 THEN NInf ELSE PInf
Zero == Fin(0, 1)

FNeg(a) == [a EXCEPT !.n = -a.n]

FAdd(a, b) ==
    IF a.k = "nan" \/ b.k = "nan" THEN NaN
    ELSE IF a.k = "inf" /\ b.k = "inf" THEN (IF a.n = b.n THEN a ELSE NaN)
    ELSE IF a.k = "inf" THEN a
    ELSE IF b.k = "inf" THEN b
    ELSE LET g == GCD(a.d, b.d)
         IN  Fin(a.n * (b.d \div g) + b.n * (a.d \div g), a.d * (b.d \div g))

FMul(a, b) ==
    IF a.k = "nan" \/ b.k = "nan" THEN NaN
    ELSE IF a.k = "inf" \/ b.k = "inf"
         THEN (IF a.n = 0 \/ b.n = 0 THEN NaN ELSE Inf(SignOf(a.n) * SignOf(b.n)))
    ELSE LET g1 == GCD(AbsInt(a.n), b.d)
             g2 == GCD(AbsInt(b.n), a.d)
         IN  Fin((a.n \div g1) * (b.n \div g2), (a.d \div g2) * (b.d \div g1))

FDiv(a, b) ==
    IF a.k = "nan" \/ b.k = "nan" THEN NaN
    ELSE IF a.k = "inf" THEN (IF b.k = "inf" THEN NaN
                              ELSE Inf(a.n * (IF b.n < 0 THEN -1 ELSE 1)))
    ELSE IF b.k = "inf" THEN Zero
    ELSE IF b.n = 0 THEN (IF a.n = 0 THEN NaN ELSE Inf(SignOf(a.n)))
    ELSE FMul(a, Fin(b.d, b.n))

\* a < b as numpy evaluates it: False when either side is NaN
FLess(a, b) ==
    IF a.k = "nan" \/ b.k = "nan" THEN FALSE
    ELSE IF a.k = "inf" THEN a.n < 0 /\ b # NInf
    ELSE IF b.k = "inf" THEN b.n > 0
    ELSE a.n * b.d < b.n * a.d

\* np.abs of one element; an int16 -32768 wraps to itself
FAbs(a, dtype) ==
    IF dtype = "int16" /\ a = Fin(-32768, 1) THEN a
    ELSE [a EXCEPT !.n = AbsInt(a.n)]


-----------------------------------------------------------------------------
(* numpy arrays. *)

Array(dtype, ndim, ch, rows) == [dtype |-> dtype, ndim |-> ndim, ch |-> ch, rows |-> rows]

\* X.shape[0]
Shape0(A) == Len(A.rows)

\* X.size
Size(A) == Len(A.rows) * A.ch

\* np.zeros(X.data.shape)
ZerosShape(A) ==
    Array("float64", A.ndim, A.ch, [i \in 1 .. Len(A.rows) |-> [j \in 1 .. A.ch |-> Zero]])

\* np.zeros(X.data.size): one dimension, whatever the shape of X.data
ZerosSize(A) ==
    Array("float64", 1, 1, [i \in 1 .. Size(A) |-> <<Zero>>])

Elements(A) == {A.rows[i][j] : i \in 1 .. Len(A.rows), j \in 1 .. A.ch}

\* np.max(np.abs(X)) of a non-empty array; np.max returns NaN when one element is NaN
Peak(A) ==
    LET abs == {FAbs(e, A.dtype) : e \in Elements(A)}
    IN  IF NaN \in abs THEN NaN
        ELSE CHOOSE m \in abs : \A e \in abs : ~FLess(m, e)

\* normalize raises ValueError on an empty array (np.max of a zero-size array)
NormalizeRaises(A) == Size(A) = 0

\* normalize(X) == X/np.max(np.abs(X)): a new float64 array, no guard on a zero peak
Normalize(A) ==
    Array("float64", A.ndim, A.ch,
          [i \in 1 .. Len(A.rows) |-> [j \in 1 .. A.ch |-> FDiv(A.rows[i][j], Peak(A))]])

\* scalar * item and item + item, elementwise over an item of the first axis
RowScale(c, row) == [j \in 1 .. Len(row) |-> FMul(c, row[j])]
RowAdd(r1, r2) ==
    IF Len(r1) = Len(r2) THEN [j \in 1 .. Len(r1) |-> FAdd(r1[j], r2[j])]
    ELSE IF Len(r2) = 1 THEN [j \in 1 .. Len(r1) |-> FAdd(r1[j], r2[1])]
    ELSE [j \in 1 .. Len(r2) |-> FAdd(r1[1], r2[j])]

\* int(x) of the quotient a/b, b > 0: truncation towards zero
Trunc(a, b) == IF a >= 0 THEN a \div b ELSE -((-a) \div b)

-----------------------------------------------------------------------------
(* The filter parameters; a settings dict is the sequence of its (key, value)
   pairs in insertion order. *)

chorus_alpha == Fin(1, 4)
chorus_beta == Fin(1, 4)
chorus_fi == Fin(1, 10)
chorus_f == Fin(1, 4)
chorus_t == 50
chorus_settings ==
    << <<"alpha", chorus_alpha>>, <<"beta", chorus_beta>>, <<"fi", chorus_fi>>,
       <<"f", chorus_f>>, <<"t", Fin(chorus_t, 1)>> >>

delay_alpha == Fin(2, 5)
delay_beta == Fin(3, 20)
delay_t == 430
delay_settings ==
    << <<"alpha", delay_alpha>>, <<"beta", delay_beta>>, <<"t", Fin(delay_t, 1)>> >>

dist_coef == Fin(1, 5)
distortion_settings == << <<"dist_coef", dist_coef>> >>

\* D = int((t*10**(-3))*X.sf)
DelaySamples(t, sf) == Trunc(t * sf, 1000)

\* sin(pi/2 * p/q) for 0 <= p <= q, in units of 1/10000 (Taylor polynomial to x^7)
SinQuarter(p, q) ==
    LET x == (15708 * p) \div q
        x2 == (x * x) \div 10000
        x3 == (x * x2) \div 10000
        x5 == (x3 * x2) \div 10000
        x7 == ((x5 \div 10) * x2) \div 1000
    IN  x - (x3 \div 6) + (x5 \div 120) - (x7 \div 5040)

\* np.sin(2*np.pi*f/sf*i) in units of 1/10000: the angle is 4*f*i/sf quarter turns
SinTurn(f, sf, i) ==
    LET num == 4 * f.n * i
        den == f.d * sf
        quad == (num \div den) % 4
        p == num % den
    IN  CASE quad = 0 -> SinQuarter(p, den)
          [] quad = 1 -> SinQuarter(den - p, den)
          [] quad = 2 -> -SinQuarter(p, den)
          [] quad = 3 -> -SinQuarter(den - p, den)

\* delayed_index = int(D*(1+fi*np.sin(2*np.pi*f/X.sf*n))); the fixed-point sine is
\* within 2/10000 of np.sin, which gives the float64 result for sample rates below
\* 120 and indices below one modulation period (4*sf samples at f = 0.25)
DelayedIndex(d, fi, f, sf, i) ==
    Trunc(d * (fi.d * 10000 + fi.n * SinTurn(f, sf, i)), fi.d * 10000)

-----------------------------------------------------------------------------
(* Strings: a str is a sequence of one-character strings (tokens). *)

Digits == {"0", "1", "2", "3", "4", "5", "6", "7", "8", "9"}

DigitVal(c) ==
    CASE c = "0" -> 0 [] c = "1" -> 1 [] c = "2" -> 2 [] c = "3" -> 3 [] c = "4" -> 4
      [] c = "5" -> 5 [] c = "6" -> 6 [] c = "7" -> 7 [] c = "8" -> 8 [] c = "9" -> 9

DigitChar(v) ==
    CASE v = 0 -> "0" [] v = 1 -> "1" [] v = 2 -> "2" [] v = 3 -> "3" [] v = 4 -> "4"
      [] v = 5 -> "5" [] v = 6 -> "6" [] v = 7 -> "7" [] v = 8 -> "8" [] v = 9 -> "9"

RECURSIVE LStrip(_)
LStrip(s) == IF s # <<>> /\ Head(s) = " " THEN LStrip(Tail(s)) ELSE s

RECURSIVE RStrip(_)
RStrip(s) ==
    IF s # <<>> /\ s[Len(s)] = " " THEN RStrip(SubSeq(s, 1, Len(s) - 1)) ELSE s

RECURSIVE DigitsValue(_)
DigitsValue(s) ==
    IF s = <<>> THEN 0
    ELSE 10 * DigitsValue(SubSeq(s, 1, Len(s) - 1)) + DigitVal(s[Len(s)])

\* int(s) of a str: surrounding whitespace stripped, an optional sign, then decimal
\* digits only; ok = FALSE stands for ValueError
ParseInt(s) ==
    LET t == RStrip(LStrip(s))
        signed == t # <<>> /\ Head(t) \in {"+", "-"}
        body == IF signed THEN Tail(t) ELSE t
        ok == body # <<>> /\ \A i \in 1 .. Len(body) : body[i] \in Digits
    IN  [ok |-> ok,
         val |-> IF ~ok THEN 0
                 ELSE IF signed /\ Head(t) = "-" THEN -DigitsValue(body)
                 ELSE DigitsValue(body)]

\* str(v) of a non-negative int
RECURSIVE IntStr(_)
IntStr(v) == IF v < 10 THEN <<DigitChar(v)>> ELSE IntStr(v \div 10) \o <<DigitChar(v % 10)>>

\* the decimal digits of the fraction r/den, 0 <= r < den, den a product of 2s and 5s
RECURSIVE FracStr(_, _)
FracStr(r, den) ==
    IF r = 0 THEN <<>>
    ELSE <<DigitChar((10 * r) \div den)>> \o FracStr((10 * r) % den, den)

\* str(v) of a filter parameter: among the parameters a value with denominator 1
\* is a Python int (t), every other one a float with a short decimal expansion
Str(v) ==
    IF v.d = 1 THEN IntStr(v.n)
    ELSE IntStr(v.n \div v.d) \o <<".">> \o FracStr(v.n % v.d, v.d)

\* s[:k]
SliceTo(s, k) ==
    LET e == IF k < 0 THEN (IF Len(s) + k < 0 THEN 0 ELSE Len(s) + k)
             ELSE IF k > Len(s) THEN Len(s) ELSE k
    IN  SubSeq(s, 1, e)

\* the settings part of the new file name: key_value_ for every key, in dict order
RECURSIVE ParamsStr(_)
ParamsStr(params) ==
    IF params = <<>> THEN <<>>
    ELSE <<Head(params)[1], "_">> \o Str(Head(params)[2]) \o <<"_">> \o ParamsStr(Tail(params))

create_new_file_name(obj) ==
    SliceTo(obj.file_name, Len(obj.file_name) - 4) \o <<"_">>
        \o <<obj.filter, "(">> \o ParamsStr(obj.filter_params) \o <<")", ".", "w", "a", "v">>

-----------------------------------------------------------------------------
(* Inputs. *)

\* the arrays wavfile.read returns: 1-D for one channel, (frames, channels) otherwise
Buffers ==
    UNION { { Array("int16", IF ch = 1 THEN 1 ELSE 2, ch,
                    [i \in 1 .. len |-> [j \in 1 .. ch |-> Fin(r[i][j], 1)]])
              : r \in [1 .. len -> [1 .. ch -> Samples]] }
            : <<len, ch>> \in { p \in (0 .. MaxLen) \X (1 .. MaxChannels) :
                                 p[1] * p[2] <= MaxSize } }

\* the lines the user types at the effect prompt
Inputs == UNION { [1 .. len -> Chars] : len \in 0 .. MaxInput }

-----------------------------------------------------------------------------
(* The program. *)

\* Sound_file.__init__
Sound_file(data, sf) ==
    [data |-> data, sf |-> sf, filter |-> None, filter_params |-> <<>>, file_name |-> NoName]

\* create_sound_file_object
create_sound_file_object(sound_data, sf) == Sound_file(sound_data, sf)

\* an event of the call history
Call(fn, arg) == [fn |-> fn, arg |-> arg]

\* an uncaught exception ends the program
Raise(e) ==
    /\ pc' = "crashed"
    /\ exc' = e

\* numpy index i of an array
Item(A, i) == A.rows[i + 1]
SetItem(A, i, row) == [A EXCEPT !.rows[i + 1] = row]

\* the state at the start of main, after welcome_message
Init ==
    /\ pc = "get_file_name"
    /\ ret = "main"
    /\ message = "message"
    /\ file_name = NoName
    /\ sound_obj = NoObject
    /\ int_choice = 0
    /\ filt_obj = NoObject
    /\ D = 0
    /\ D2 = 0
    /\ X_norm = NoObject
    /\ Y = NoObject
    /\ n = 0
    /\ out_file = NoObject
    /\ exc = None
    /\ calls = <<>>
    /\ writes = <<>>
    /\ reads = {}

\* get_file_name, one iteration in which wavfile.read raises
get_file_name_retry ==
    /\ pc = "get_file_name"
    /\ \E e \in {"FileNotFoundError", "ValueError"} :
          message' = IF e = "FileNotFoundError" THEN "error_message_1" ELSE "error_message_2"
    /\ UNCHANGED <<pc, ret, file_name, sound_obj, int_choice, filt_obj, D, D2, X_norm, Y, n,
                   out_file, exc, calls, writes, reads>>

\* get_file_name, the iteration in which wavfile.read succeeds, and main's
\* create_sound_file_object
get_file_name_return ==
    /\ pc = "get_file_name"
    /\ \E name \in FileNames, sf \in SampleRates, data \in Buffers :
          /\ file_name' = name
          /\ sound_obj' = create_sound_file_object(data, sf)
    /\ message' = "message"
    /\ pc' = "get_integer"
    /\ UNCHANGED <<ret, int_choice, filt_obj, D, D2, X_norm, Y, n, out_file, exc, calls,
                   writes, reads>>

\* int(int_choice) of every line the user can type
ParsedInputs == {ParseInt(s) : s \in Inputs}

\* ValidChoice with the upper limit off by one
ValidChoiceWide(v) == 0 < v /\ v <= 4

\* valid = 0 < int_choice < 4
ValidChoice(v) == 0 < v /\ v < 4

\* get_integer, one iteration that does not return: int() raises ValueError or the
\* integer is out of range
get_integer_retry ==
    /\ pc = "get_integer"
    /\ {r \in ParsedInputs : ~r.ok \/ ~ValidChoice(r.val)} # {}
    /\ message' = "error_message"
    /\ UNCHANGED <<pc, ret, file_name, sound_obj, int_choice, filt_obj, D, D2, X_norm, Y, n,
                   out_file, exc, calls, writes, reads>>

\* get_integer, the iteration that returns
get_integer_return ==
    /\ pc = "get_integer"
    /\ \E r \in ParsedInputs :
          /\ r.ok
          /\ ValidChoice(r.val)
          /\ int_choice' = r.val
    /\ pc' = "sound_processing"
    /\ UNCHANGED <<ret, message, file_name, sound_obj, filt_obj, D, D2, X_norm, Y, n,
                   out_file, exc, calls, writes, reads>>

\* sound_processing returns filt_obj to its caller
Return(obj) ==
    /\ filt_obj' = obj
    /\ pc' = IF ret = "main" THEN "assign_file_name" ELSE "returned"

\* chorus up to its loop: D, Y, X_norm
chorus_enter ==
    /\ D' = DelaySamples(chorus_t, sound_obj.sf)
    /\ Y' = ZerosShape(sound_obj.data)
    /\ calls' = calls \o <<Call("chorus", NoObject), Call("normalize", sound_obj.data)>>
    /\ IF NormalizeRaises(sound_obj.data)
       THEN Raise("ValueError") /\ UNCHANGED X_norm
       ELSE /\ X_norm' = Normalize(sound_obj.data)
            /\ pc' = "chorus"
            /\ exc' = exc
    /\ n' = 0
    /\ filt_obj' = NoObject
    /\ UNCHANGED D2

\* delay up to its loop: D, D2, Y, X_norm
delay_enter ==
    /\ D' = DelaySamples(delay_t, sound_obj.sf)
    /\ D2' = DelaySamples(delay_t, sound_obj.sf) * 2
    /\ Y' = ZerosSize(sound_obj.data)
    /\ calls' = calls \o <<Call("delay", NoObject), Call("normalize", sound_obj.data)>>
    /\ IF NormalizeRaises(sound_obj.data)
       THEN Raise("ValueError") /\ UNCHANGED X_norm
       ELSE /\ X_norm' = Normalize(sound_obj.data)
            /\ pc' = "delay"
            /\ exc' = exc
    /\ n' = 0
    /\ filt_obj' = NoObject

\* distortion up to its loop: X_norm, Y
distortion_enter ==
    /\ calls' = calls \o <<Call("distortion", NoObject), Call("normalize", sound_obj.data)>>
    /\ IF NormalizeRaises(sound_obj.data)
       THEN Raise("ValueError") /\ UNCHANGED <<X_norm, Y>>
       ELSE /\ X_norm' = Normalize(sound_obj.data)
            /\ Y' = ZerosShape(sound_obj.data)
            /\ pc' = "distortion"
            /\ exc' = exc
    /\ n' = 0
    /\ filt_obj' = NoObject
    /\ UNCHANGED <<D, D2>>

\* sound_processing up to the loop of the filter it calls; with no filter called it
\* returns its placeholder None
sound_processing ==
    /\ pc = "sound_processing"
    /\ IF int_choice = 1 THEN chorus_enter
       ELSE IF int_choice = 2 THEN delay_enter
       ELSE IF int_choice = 3 THEN distortion_enter
       ELSE /\ Return(NoObject)
            /\ UNCHANGED <<D, D2, X_norm, Y, n, exc, calls>>
    /\ UNCHANGED <<ret, message, file_name, sound_obj, int_choice, out_file, writes, reads>>

\* a cell the loop reads in iteration at
Read(buf, idx, at) == [buf |-> buf, idx |-> idx, at |-> at]

\* ChorusSample with the delayed term read from the output array
ChorusSampleFeedback(Xn, Yn, d, sf, i) ==
    LET delayed_index == DelayedIndex(d, chorus_fi, chorus_f, sf, i)
    IN  IF i - delayed_index < 0
        THEN RowScale(chorus_alpha, Item(Xn, i))
        ELSE RowAdd(RowScale(chorus_alpha, Item(Xn, i)),
                    RowScale(chorus_beta, Item(Yn, i - delayed_index)))

\* the value chorus assigns to Y[n]
ChorusSample(Xn, Yn, d, sf, i) ==
    LET delayed_index == DelayedIndex(d, chorus_fi, chorus_f, sf, i)
    IN  IF i - delayed_index < 0
        THEN RowScale(chorus_alpha, Item(Xn, i))
        ELSE RowAdd(RowScale(chorus_alpha, Item(Xn, i)),
                    RowScale(chorus_beta, Item(Xn, i - delayed_index)))

\* the cells chorus reads to compute Y[n]
ChorusReads(d, sf, i) ==
    LET delayed_index == DelayedIndex(d, chorus_fi, chorus_f, sf, i)
    IN  IF i - delayed_index < 0
        THEN {Read("X_norm", i, i)}
        ELSE {Read("X_norm", i, i), Read("X_norm", i - delayed_index, i)}

\* one iteration of chorus's loop
chorus_loop ==
    /\ pc = "chorus"
    /\ n < Shape0(X_norm)
    /\ Y' = SetItem(Y, n, ChorusSample(X_norm, Y, D, sound_obj.sf, n))
    /\ reads' = reads \cup ChorusReads(D, sound_obj.sf, n)
    /\ writes' = Append(writes, n)
    /\ n' = n + 1
    /\ UNCHANGED <<pc, ret, message, file_name, sound_obj, int_choice, filt_obj, D, D2,
                   X_norm, out_file, exc, calls>>

\* Filtered with the settings not saved
FilteredNoSettings(data, sf, name, settings) ==
    [create_sound_file_object(data, sf) EXCEPT !.filter = name]

\* the filtered Sound_file a filter builds after its loop
Filtered(data, sf, name, settings) ==
    [create_sound_file_object(data, sf) EXCEPT !.filter = name, !.filter_params = settings]

\* chorus after its loop, and sound_processing's return
chorus_return ==
    /\ pc = "chorus"
    /\ n >= Shape0(X_norm)
    /\ Return(Filtered(Y, sound_obj.sf, "chorus", chorus_settings))
    /\ UNCHANGED <<ret, message, file_name, sound_obj, int_choice, D, D2, X_norm, Y, n,
                   out_file, exc, calls, writes, reads>>

\* DelaySample with the echo starting after D samples, not D2
DelaySampleEarlyEcho(Xn, Yn, d, d2, i) ==
    IF i - d < 0
    THEN Item(Xn, i)
    ELSE RowAdd(Item(Xn, i), RowScale(delay_alpha, Item(Xn, i - d)))

\* the value delay assigns to Y[n]
DelaySample(Xn, Yn, d, d2, i) ==
    IF i - d2 < 0
    THEN Item(Xn, i)
    ELSE RowAdd(RowAdd(Item(Xn, i), RowScale(delay_alpha, Item(Xn, i - d))),
                RowScale(delay_beta, Item(Yn, i - d2)))

\* the cells delay reads to compute Y[n]
DelayReads(d, d2, i) ==
    IF i - d2 < 0
    THEN {Read("X_norm", i, i)}
    ELSE {Read("X_norm", i, i), Read("X_norm", i - d, i), Read("Y", i - d2, i)}

\* one iteration of delay's loop; Y is one-dimensional, and assigning an item of
\* several channels to one of its cells raises ValueError
delay_loop ==
    /\ pc = "delay"
    /\ n < Shape0(X_norm)
    /\ reads' = reads \cup DelayReads(D, D2, n)
    /\ IF Len(DelaySample(X_norm, Y, D, D2, n)) # 1
       THEN /\ Raise("ValueError")
            /\ UNCHANGED <<Y, writes, n>>
       ELSE /\ Y' = SetItem(Y, n, DelaySample(X_norm, Y, D, D2, n))
            /\ writes' = Append(writes, n)
            /\ n' = n + 1
            /\ UNCHANGED <<pc, exc>>
    /\ UNCHANGED <<ret, message, file_name, sound_obj, int_choice, filt_obj, D, D2,
                   X_norm, out_file, calls>>

\* delay after its loop, and sound_processing's return
delay_return ==
    /\ pc = "delay"
    /\ n >= Shape0(X_norm)
    /\ Return(Filtered(Y, sound_obj.sf, "delay", delay_settings))
    /\ UNCHANGED <<ret, message, file_name, sound_obj, int_choice, D, D2, X_norm, Y, n,
                   out_file, exc, calls, writes, reads>>

\* the value distortion assigns to Y[n], for a scalar X_norm[n]
DistortionSample(Xn, i) ==
    IF FLess(Item(Xn, i)[1], FNeg(dist_coef)) THEN <<FNeg(dist_coef)>>
    ELSE IF FLess(dist_coef, Item(Xn, i)[1]) THEN <<dist_coef>>
    ELSE Item(Xn, i)

\* one iteration of distortion's loop; the truth value of a comparison of an item of
\* several channels is ambiguous and raises ValueError
distortion_loop ==
    /\ pc = "distortion"
    /\ n < Shape0(X_norm)
    /\ reads' = reads \cup {Read("X_norm", n, n)}
    /\ IF Len(Item(X_norm, n)) # 1
       THEN /\ Raise("ValueError")
            /\ UNCHANGED <<Y, writes, n>>
       ELSE /\ Y' = SetItem(Y, n, DistortionSample(X_norm, n))
            /\ writes' = Append(writes, n)
            /\ n' = n + 1
            /\ UNCHANGED <<pc, exc>>
    /\ UNCHANGED <<ret, message, file_name, sound_obj, int_choice, filt_obj, D, D2,
                   X_norm, out_file, calls>>

\* distortion after its loop, and sound_processing's return
distortion_return ==
    /\ pc = "distortion"
    /\ n >= Shape0(X_norm)
    /\ Return(Filtered(Y, sound_obj.sf, "distortion", distortion_settings))
    /\ UNCHANGED <<ret, message, file_name, sound_obj, int_choice, D, D2, X_norm, Y, n,
                   out_file, exc, calls, writes, reads>>

\* main: filt_obj.file_name = file_name; None has no attributes to set
assign_file_name ==
    /\ pc = "assign_file_name"
    /\ IF filt_obj = NoObject
       THEN Raise("AttributeError") /\ UNCHANGED filt_obj
       ELSE /\ filt_obj' = [filt_obj EXCEPT !.file_name = file_name]
            /\ pc' = "write_new_sound_file"
            /\ exc' = exc
    /\ UNCHANGED <<ret, message, file_name, sound_obj, int_choice, D, D2, X_norm, Y, n,
                   out_file, calls, writes, reads>>

\* write_new_sound_file writing the filter's output as it is
write_new_sound_file_raw ==
    /\ pc = "write_new_sound_file"
    /\ out_file' = [name |-> create_new_file_name(filt_obj), sf |-> filt_obj.sf,
                    data |-> filt_obj.data]
    /\ calls' = Append(calls, Call("wavfile.write", filt_obj.data))
    /\ pc' = "done"
    /\ UNCHANGED <<ret, message, file_name, sound_obj, int_choice, filt_obj, D, D2, X_norm,
                   Y, n, exc, writes, reads>>

\* write_new_sound_file and end_message: normalize, create_new_file_name, wavfile.write
write_new_sound_file ==
    /\ pc = "write_new_sound_file"
    /\ IF NormalizeRaises(filt_obj.data)
       THEN /\ Raise("ValueError")
            /\ calls' = Append(calls, Call("normalize", filt_obj.data))
            /\ UNCHANGED out_file
       ELSE /\ out_file' = [name |-> create_new_file_name(filt_obj), sf |-> filt_obj.sf,
                            data |-> Normalize(filt_obj.data)]
            /\ calls' = calls \o <<Call("normalize", filt_obj.data),
                                   Call("wavfile.write", Normalize(filt_obj.data))>>
            /\ pc' = "done"
            /\ exc' = exc
    /\ UNCHANGED <<ret, message, file_name, sound_obj, int_choice, filt_obj, D, D2, X_norm,
                   Y, n, writes, reads>>

Next ==
    \/ get_file_name_retry
    \/ get_file_name_return
    \/ get_integer_retry
    \/ get_integer_return
    \/ sound_processing
    \/ chorus_loop
    \/ chorus_return
    \/ delay_loop
    \/ delay_return
    \/ distortion_loop
    \/ distortion_return
    \/ assign_file_name
    \/ write_new_sound_file

\* the program run from main
Spec == Init /\ [][Next]_vars

\* sound_processing called directly by a caller, with any selection
InitDispatch ==
    /\ pc = "sound_processing"
    /\ ret = "caller"
    /\ message = "message"
    /\ file_name = NoName
    /\ \E sf \in SampleRates, data \in Buffers : sound_obj = create_sound_file_object(data, sf)
    /\ int_choice \in Selections
    /\ filt_obj = NoObject
    /\ D = 0
    /\ D2 = 0
    /\ X_norm = NoObject
    /\ Y = NoObject
    /\ n = 0
    /\ out_file = NoObject
    /\ exc = None
    /\ calls = <<>>
    /\ writes = <<>>
    /\ reads = {}

NextDispatch ==
    \/ sound_processing
    \/ chorus_loop
    \/ chorus_return
    \/ delay_loop
    \/ delay_return
    \/ distortion_loop
    \/ distortion_return

SpecDispatch == InitDispatch /\ [][NextDispatch]_vars

-----------------------------------------------------------------------------
(* Vocabulary of the properties. *)

\* the function fn has been called
Called(fn) == \E i \in 1 .. Len(calls) : calls[i].fn = fn

\* the numpy indices of Y assigned so far
Written == {writes[i] : i \in 1 .. Len(writes)}

\* the numpy indices of the input buffer
Indices == 0 .. (Shape0(sound_obj.data) - 1)

\* a finite, non-zero float
Audible(v) == v.k = "fin" /\ v.n # 0

\* a <= b as numpy evaluates it
FLeq(a, b) == a.k # "nan" /\ b.k # "nan" /\ ~FLess(b, a)

\* the sound object sound_processing has returned, once it has
Returned == pc \in {"assign_file_name", "write_new_sound_file", "done", "returned"}

-----------------------------------------------------------------------------
(* Properties. *)

\* C1: in the finished output Y of delay, for every sample rate, every index i >= D2
\* satisfies Y[i] = X_norm[i] + alpha*X_norm[i-D] + beta*Y[i-D2], and the feedback
\* cell Y[i-D2] the loop read in iteration i had a strictly earlier index, so it
\* was already written.
C1_DelayRecurrence ==
    /\ \A r \in reads : r.buf = "Y" => r.idx < r.at
    /\ (Returned /\ filt_obj # NoObject /\ Called("delay")) =>
          \A i \in Indices :
             i >= 2 * ((430 * sound_obj.sf) \div 1000) =>
                Item(filt_obj.data, i) =
                   RowAdd(RowAdd(Item(X_norm, i),
                                 RowScale(Fin(2, 5),
                                          Item(X_norm, i - ((430 * sound_obj.sf) \div 1000)))),
                          RowScale(Fin(3, 20),
                                   Item(filt_obj.data,
                                        i - 2 * ((430 * sound_obj.sf) \div 1000))))

\* C2: delay causality window: every cell of index i < 2*D that delay has written,
\* and every such cell of its finished output, equals X_norm[i], with
\* D = floor(430/1000 * sample rate).
C2_DelayCausalityWindow ==
    Called("delay") =>
       /\ \A i \in Written :
             i < 2 * ((430 * sound_obj.sf) \div 1000) => Item(Y, i) = Item(X_norm, i)
       /\ (Returned /\ filt_obj # NoObject) =>
             \A i \in Indices :
                i < 2 * ((430 * sound_obj.sf) \div 1000) =>
                   Item(filt_obj.data, i) = Item(X_norm, i)

\* C2 witness: delay has returned an output in which a cell after the first,
\* inside the window, passes an audible sample through.
C2_Witness ==
    /\ Returned /\ filt_obj # NoObject /\ Called("delay")
    /\ D >= 1
    /\ Shape0(filt_obj.data) >= 2
    /\ Audible(Item(filt_obj.data, 1)[1])
    /\ Item(filt_obj.data, 1) = Item(X_norm, 1)

\* the delayed index the chorus formula gives for index i
ChorusDelayedIndex(i) ==
    DelayedIndex((50 * sound_obj.sf) \div 1000, Fin(1, 10), Fin(1, 4), sound_obj.sf, i)

\* C3: chorus has no feedback and a dry-only fade-in: every cell i chorus has written
\* is alpha*X_norm[i] when i - delayedIndex(i) < 0 and
\* alpha*X_norm[i] + beta*X_norm[i - delayedIndex(i)] otherwise, the same holds of
\* its finished output, and every cell its loop read is a cell of X_norm at an
\* index in 0..i.
C3_ChorusNoFeedback ==
    Called("chorus") =>
       /\ \A r \in reads : r.buf = "X_norm" /\ 0 <= r.idx /\ r.idx <= r.at
       /\ \A i \in Written :
             Item(Y, i) =
                IF i - ChorusDelayedIndex(i) < 0
                THEN RowScale(Fin(1, 4), Item(X_norm, i))
                ELSE RowAdd(RowScale(Fin(1, 4), Item(X_norm, i)),
                            RowScale(Fin(1, 4), Item(X_norm, i - ChorusDelayedIndex(i))))
       /\ (Returned /\ filt_obj # NoObject) => filt_obj.data = Y /\ Written = Indices

\* C3 witness: chorus has returned an output with a fade-in cell and a cell that
\* mixes in an audible delayed sample from a positive delay.
C3_Witness ==
    /\ Returned /\ filt_obj # NoObject /\ Called("chorus")
    /\ 0 - ChorusDelayedIndex(0) < 0
    /\ \E i \in Indices :
          /\ i - ChorusDelayedIndex(i) >= 0
          /\ Audible(Item(X_norm, i - ChorusDelayedIndex(i))[1])
          /\ Audible(Item(X_norm, i)[1])
          /\ Audible(Item(filt_obj.data, i)[1])

\* C4: distortion is an elementwise symmetric clamp: every cell distortion has
\* written satisfies |Y[i]| <= dist_coef.
C4_DistortionBounded ==
    Called("distortion") =>
       \A i \in Written : FLeq(FAbs(Item(Y, i)[1], "float64"), Fin(1, 5))

\* C5: length preservation: the output array a filter allocates for a non-empty
\* input has the length of the input, and a run of a filter on a non-empty input
\* does not end before every index 0..N-1 is written, each once.
C5_LengthPreserved ==
    (Y # NoObject /\ Shape0(sound_obj.data) > 0) =>
       /\ Shape0(Y) = Shape0(sound_obj.data)
       /\ pc # "crashed"
       /\ Returned => writes = [i \in 1 .. Shape0(sound_obj.data) |-> i - 1]

\* C6: once normalize has been called on a silent input buffer (peak absolute
\* amplitude zero), the program has ended with DegenerateInputError, no sample loop
\* has written a cell and nothing is persisted.
C6_SilentInputRaises ==
    (Called("normalize") /\ Shape0(sound_obj.data) > 0 /\ Peak(sound_obj.data) = Zero) =>
       /\ exc = "DegenerateInputError"
       /\ writes = <<>>
       /\ out_file = NoObject

\* C7: sound_processing has no fallback outcome: called with a selection outside
\* {1, 2, 3} it ends with InvalidSelectionError and never returns to its caller.
C7_InvalidSelectionRaises ==
    (int_choice \notin {1, 2, 3} /\ pc # "sound_processing") =>
       /\ exc = "InvalidSelectionError"
       /\ ~Returned

\* the filter a valid selection stands for, and the parameter values its loop uses
SelectedFilter == CASE int_choice = 1 -> "chorus" [] int_choice = 2 -> "delay"
                    [] int_choice = 3 -> "distortion"
UsedParams ==
    CASE int_choice = 1 ->
            << <<"alpha", chorus_alpha>>, <<"beta", chorus_beta>>, <<"fi", chorus_fi>>,
               <<"f", chorus_f>>, <<"t", Fin(chorus_t, 1)>> >>
      [] int_choice = 2 ->
            << <<"alpha", delay_alpha>>, <<"beta", delay_beta>>, <<"t", Fin(delay_t, 1)>> >>
      [] int_choice = 3 -> << <<"dist_coef", dist_coef>> >>

IsFilterCall(c) == c.fn \in {"chorus", "delay", "distortion"}
IsNormalizeCall(c) == c.fn = "normalize"

\* C8: for a valid selection exactly one filter is called, the selected one; the
\* object sound_processing returns names that filter and records the parameter
\* values its loop used; and once set, the descriptor never changes.
C8_MatchingDescriptor ==
    /\ [](int_choice \in {1, 2, 3} =>
            /\ Len(SelectSeq(calls, IsFilterCall)) <= 1
            /\ Returned =>
                  /\ SelectSeq(calls, IsFilterCall) = <<Call(SelectedFilter, NoObject)>>
                  /\ filt_obj # NoObject
                  /\ filt_obj.filter = SelectedFilter
                  /\ filt_obj.filter_params = UsedParams)
    /\ [][filt_obj # NoObject =>
             /\ filt_obj' # NoObject
             /\ filt_obj'.filter = filt_obj.filter
             /\ filt_obj'.filter_params = filt_obj.filter_params]_vars

\* C8 witness: the run is complete, the returned object was given its file name
\* after the filter set the descriptor, and it still carries the chorus descriptor.
C8_Witness ==
    /\ pc = "done"
    /\ int_choice = 1
    /\ filt_obj.file_name # NoName
    /\ filt_obj.filter = "chorus"
    /\ Len(filt_obj.filter_params) = 5

\* C9: normalize is called at most twice; no cell of the output is written before
\* its first call, which is on the raw input buffer; its second call is on the
\* filter's finished output; nothing is persisted before the second call, and the
\* buffer wavfile.write persists is the result of the second call.
C9_NormalizeTwice ==
    /\ Len(SelectSeq(calls, IsNormalizeCall)) <= 2
    /\ writes # <<>> =>
          /\ Len(SelectSeq(calls, IsNormalizeCall)) >= 1
          /\ SelectSeq(calls, IsNormalizeCall)[1].arg = sound_obj.data
    /\ Len(SelectSeq(calls, IsNormalizeCall)) = 2 =>
          /\ Returned
          /\ SelectSeq(calls, IsNormalizeCall)[1].arg = sound_obj.data
          /\ SelectSeq(calls, IsNormalizeCall)[2].arg = Y
          /\ Written = Indices
    /\ (pc = "done" \/ out_file # NoObject \/ Called("wavfile.write")) =>
          /\ pc = "done"
          /\ Len(SelectSeq(calls, IsNormalizeCall)) = 2
          /\ calls[Len(calls)].fn = "wavfile.write"
          /\ calls[Len(calls) - 1].fn = "normalize"
          /\ out_file.data = Normalize(Y)
          /\ out_file.data = calls[Len(calls)].arg

\* C9 witness: a complete run whose second normalization changed the filter's
\* audible output before it was persisted.
C9_Witness ==
    /\ pc = "done"
    /\ out_file.data # filt_obj.data
    /\ \E i \in Indices : Audible(Item(out_file.data, i)[1])

\* C10: get_integer returns only 1, 2 or 3: whatever the user typed, the selection
\* main passes on is in {1, 2, 3}, the object main assigns file_name to and writes
\* is never None, and the run never ends with AttributeError.
C10_SelectionInRange ==
    /\ pc \notin {"get_file_name", "get_integer"} => int_choice \in {1, 2, 3}
    /\ pc \in {"assign_file_name", "write_new_sound_file", "done"} => filt_obj # NoObject
    /\ exc # "AttributeError"

\* C10 witness: the user was prompted again after a rejected line, then chose, and
\* the run wrote its file.
C10_Witness ==
    /\ pc = "done"
    /\ message = "error_message"
    /\ int_choice \in {1, 2, 3}
    /\ out_file # NoObject

=============================================================================
